---- MODULE Spec2Model ----
(***************************************************************************)
(* Recipe ingestion and compression batch scripts.                         *)
(*                                                                         *)
(*   scripts/ingest.py            parse_quantity, normalize_unit,          *)
(*                                parse_ingredient, parse_csv_cell,        *)
(*                                normalize_recipe, run                    *)
(*   scripts/scaledown_client.py  compress_text                            *)
(*   scripts/compress_recipes.py  build_text_for_recipe, run               *)
(*   scripts/compress_stats.py    the byte savings of an index             *)
(*   backend/app/main.py          load_compressed_index, compress_status,  *)
(*                                compress_status_summary                  *)
(*                                                                         *)
(* A Python str is a sequence of one-character strings.  Python's None is  *)
(* the value None below, which is no str.  A float quantity is the exact   *)
(* rational <<numerator, denominator>> in lowest terms.                    *)
(***************************************************************************)
EXTENDS Integers, Sequences, FiniteSets, TLC

VARIABLES
    \* ---- scripts/ingest.py: run ----
    rawDir,        \* the raw directory: its files in the order glob lists them
    sample_limit,  \* run's sample_limit argument; 0 stands for None and for 0
    pc,            \* position of run
    fi,            \* index in sorted(raw_dir.glob('*')) of the file at hand
    items,         \* the records of the file at hand still to be iterated
    collected,     \* run's list `collected`
    seen_ids,      \* run's set `seen_ids`
    outFile,       \* content of out_file on disk
    trail,         \* history: what run has opened, normalized and skipped
    \* ---- scripts/compress_recipes.py: run ----
    recipes,       \* the list loaded from in_file
    sample,        \* run's sample argument
    remote,        \* SCALEDOWN_API_URL and SCALEDOWN_API_KEY are set, requests imports
    cpc,           \* position of run
    ci,            \* the loop index i
    call,          \* history: how the remote call of the recipe at hand went
    resp,          \* what compress_text returned for the recipe at hand
    index,         \* run's dict `index`
    blobs,         \* the files of out_dir: name, content, position that wrote it
    indexFile,     \* content of index_file on disk
    fellBack,      \* history: the positions whose remote call failed
    \* ---- scripts/ingest.py: parse_ingredient ----
    ppc,           \* position of the parse_ingredient call
    ing_raw,       \* its argument
    form,          \* how the argument was composed (qty, unit, name), or NoForm
    parsed,        \* its return value
    \* ---- scripts/ingest.py: parse_csv_cell ----
    kpc,           \* position of the parse_csv_cell call
    cell_val,      \* its argument: the text of the cell, None for a missing cell
    cell_out,      \* its return value
    \* ---- scripts/compress_stats.py, backend/app/main.py: compress_status ----
    index_json,    \* the dict in data/compressed_index.json
    index_cache,   \* main.py's _COMPRESSED_INDEX_CACHE
    script_out,    \* what compress_stats.py printed
    status_out,    \* what GET /compress-status returned, and its query
    summary_out    \* what GET /compress-status/summary returned

ingestVars == <<rawDir, sample_limit, pc, fi, items, collected, seen_ids, outFile, trail>>
compVars   == <<recipes, sample, remote, cpc, ci, call, resp, index, blobs, indexFile, fellBack>>
parseVars  == <<ppc, ing_raw, form, parsed>>
cellVars   == <<kpc, cell_val, cell_out>>
statsVars  == <<index_json, index_cache, script_out, status_out, summary_out>>
otherVars  == <<compVars, parseVars, cellVars, statsVars>>
vars       == <<ingestVars, compVars, parseVars, cellVars, statsVars>>

----------------------------------------------------------------------------
(* Python values *)

None == <<"None">>

Truthy(v) == v # None /\ v # <<>>

\* Python's `a or b`
Or(a, b) == IF Truthy(a) THEN a ELSE b

Min(a, b) == IF a < b THEN a ELSE b

SetMax(S) == CHOOSE x \in S : \A y \in S : y <= x

\* s[a-1:b] for 1 <= a; empty when b < a
Sub(s, a, b) == SubSeq(s, a, b)

\* s[:n]
Take(s, n) == SubSeq(s, 1, Min(n, Len(s)))

Digits == {"0", "1", "2", "3", "4", "5", "6", "7", "8", "9"}

UpperSeq == <<"A", "B", "C", "D", "E", "F", "G", "H", "I", "J", "K", "L", "M",
              "N", "O", "P", "Q", "R", "S", "T", "U", "V", "W", "X", "Y", "Z">>

LowerSeq == <<"a", "b", "c", "d", "e", "f", "g", "h", "i", "j", "k", "l", "m",
              "n", "o", "p", "q", "r", "s", "t", "u", "v", "w", "x", "y", "z">>

Alpha == {UpperSeq[k] : k \in 1..26} \cup {LowerSeq[k] : k \in 1..26}

\* the characters \s matches and str.strip() removes, among those modelled
WS == {" ", "\t", "\n", "\r"}

AllIn(s, a, b, S) == \A k \in a..b : s[k] \in S

\* str.strip()
Strip(s) ==
    LET keep == {k \in 1..Len(s) : s[k] \notin WS}
    IN  IF keep = {} THEN <<>>
        ELSE Sub(s, CHOOSE k \in keep : \A j \in keep : k <= j, SetMax(keep))

\* str.rstrip('.')
RStripDot(s) ==
    LET keep == {k \in 1..Len(s) : s[k] # "."}
    IN  IF keep = {} THEN <<>> ELSE Sub(s, 1, SetMax(keep))

\* str.lower()
LowerChar(c) ==
    IF \E k \in 1..26 : UpperSeq[k] = c
    THEN LowerSeq[CHOOSE k \in 1..26 : UpperSeq[k] = c]
    ELSE c

Lower(s) == [k \in 1..Len(s) |-> LowerChar(s[k])]

DigitVal(c) == CHOOSE d \in 0..9 : <<"0", "1", "2", "3", "4", "5", "6", "7", "8", "9">>[d + 1] = c

\* int(s) for a str of decimal digits
RECURSIVE DigitsToInt(_)
DigitsToInt(s) ==
    IF s = <<>> THEN 0
    ELSE 10 * DigitsToInt(Sub(s, 1, Len(s) - 1)) + DigitVal(s[Len(s)])

RECURSIVE Pow10(_)
Pow10(k) == IF k = 0 THEN 1 ELSE 10 * Pow10(k - 1)

RECURSIVE GCD(_, _)
GCD(a, b) == IF b = 0 THEN a ELSE GCD(b, a % b)

\* the rational n/d (d > 0) in lowest terms
Rat(n, d) == LET g == GCD(n, d) IN IF g = 0 THEN <<0, 1>> ELSE <<n \div g, d \div g>>

Has(s, c) == \E k \in 1..Len(s) : s[k] = c

FirstIdx(s, c) == CHOOSE k \in 1..Len(s) : s[k] = c /\ \A j \in 1..(k - 1) : s[j] # c

----------------------------------------------------------------------------
(* scripts/ingest.py: parse_quantity *)

\* Fraction('a/b') as parse_quantity receives it: digits '/' digits;
\* None stands for the exception Fraction raises
FractionOf(s) ==
    IF ~Has(s, "/") THEN None
    ELSE LET k == FirstIdx(s, "/")
             a == Sub(s, 1, k - 1)
             b == Sub(s, k + 1, Len(s))
         IN  IF a = <<>> \/ b = <<>> \/ ~AllIn(a, 1, Len(a), Digits) \/ ~AllIn(b, 1, Len(b), Digits)
             THEN None                       \* ValueError
             ELSE IF DigitsToInt(b) = 0 THEN None   \* ZeroDivisionError
             ELSE Rat(DigitsToInt(a), DigitsToInt(b))

\* float(s) for digits or digits '.' digits; None stands for ValueError
FloatOf(s) ==
    IF s # <<>> /\ AllIn(s, 1, Len(s), Digits) THEN Rat(DigitsToInt(s), 1)
    ELSE IF ~Has(s, ".") THEN None
    ELSE LET k == FirstIdx(s, ".")
             a == Sub(s, 1, k - 1)
             b == Sub(s, k + 1, Len(s))
         IN  IF a = <<>> \/ b = <<>> \/ ~AllIn(a, 1, Len(a), Digits) \/ ~AllIn(b, 1, Len(b), Digits)
             THEN None
             ELSE Rat(DigitsToInt(a) * Pow10(Len(b)) + DigitsToInt(b), Pow10(Len(b)))

parse_quantity(qstr0) ==
    IF ~Truthy(qstr0) THEN None
    ELSE LET qstr == Strip(qstr0) IN
         IF Has(qstr, " ") /\ Has(qstr, "/")
         THEN LET k == FirstIdx(qstr, " ")
                  whole == Sub(qstr, 1, k - 1)
                  frac == FractionOf(Sub(qstr, k + 1, Len(qstr)))
              IN  IF whole = <<>> \/ ~AllIn(whole, 1, Len(whole), Digits) \/ frac = None
                  THEN None                  \* except Exception
                  ELSE Rat(DigitsToInt(whole) * frac[2] + frac[1], frac[2])
         ELSE IF Has(qstr, "/") THEN FractionOf(qstr)
         ELSE FloatOf(qstr)

----------------------------------------------------------------------------
(* scripts/ingest.py: UNIT_MAP, normalize_unit *)

TABLESPOON == <<"t", "a", "b", "l", "e", "s", "p", "o", "o", "n">>
TEASPOON   == <<"t", "e", "a", "s", "p", "o", "o", "n">>
CUP        == <<"c", "u", "p">>
GRAM       == <<"g", "r", "a", "m">>
KILOGRAM   == <<"k", "i", "l", "o", "g", "r", "a", "m">>
OUNCE      == <<"o", "u", "n", "c", "e">>
POUND      == <<"p", "o", "u", "n", "d">>
CLOVE      == <<"c", "l", "o", "v", "e">>
SLICE      == <<"s", "l", "i", "c", "e">>

\* the dict as its set of <<key, value>> pairs
UNIT_MAP == {
    <<<<"t", "b", "s", "p">>, TABLESPOON>>,
    <<<<"t", "b", "s">>, TABLESPOON>>,
    <<TABLESPOON \o <<"s">>, TABLESPOON>>,
    <<<<"t", "b", "s", "p", ".">>, TABLESPOON>>,
    <<<<"t", "s", "p">>, TEASPOON>>,
    <<<<"t", "s", "p", "s">>, TEASPOON>>,
    <<TEASPOON \o <<"s">>, TEASPOON>>,
    <<CUP, CUP>>,
    <<CUP \o <<"s">>, CUP>>,
    <<<<"g">>, GRAM>>,
    <<GRAM, GRAM>>,
    <<GRAM \o <<"s">>, GRAM>>,
    <<<<"k", "g">>, KILOGRAM>>,
    <<<<"o", "z">>, OUNCE>>,
    <<OUNCE, OUNCE>>,
    <<OUNCE \o <<"s">>, OUNCE>>,
    <<<<"l", "b">>, POUND>>,
    <<POUND, POUND>>,
    <<POUND \o <<"s">>, POUND>>,
    <<CLOVE, CLOVE>>,
    <<CLOVE \o <<"s">>, CLOVE>>,
    <<SLICE, SLICE>>,
    <<SLICE \o <<"s">>, SLICE>> }

UnitKeys == {kv[1] : kv \in UNIT_MAP}

\* UNIT_MAP.get(u, default)
UnitMapGet(u, default) ==
    IF u \in UnitKeys THEN (CHOOSE kv \in UNIT_MAP : kv[1] = u)[2] ELSE default

normalize_unit(u0) ==
    IF ~Truthy(u0) THEN None
    ELSE LET u == RStripDot(Strip(Lower(u0))) IN UnitMapGet(u, u)

----------------------------------------------------------------------------
(* scripts/ingest.py: ING_RE, parse_ingredient *)

\* s[a..b] matches  \d+(?:[ \t]\d+\/\d+|\/\d+|\.\d+)?
QtyMatches(s, a, b) ==
    \E d \in a..b :
        /\ AllIn(s, a, d, Digits)
        /\ \/ d = b
           \/ /\ d + 2 <= b
              /\ s[d + 1] \in {"/", "."}
              /\ AllIn(s, d + 2, b, Digits)
           \/ /\ s[d + 1] \in {" ", "\t"}
              /\ \E m \in (d + 3)..(b - 1) :
                    /\ s[m] = "/"
                    /\ AllIn(s, d + 2, m - 1, Digits)
                    /\ AllIn(s, m + 1, b, Digits)

\* (?P<name>.+)$ matches from position p5 + 1: one or more characters other
\* than newline, up to the end of s or up to a newline that ends s
NameEnd(s, p5) ==
    LET n == Len(s)
        e == IF n > 0 /\ s[n] = "\n" THEN n - 1 ELSE n
    IN  IF p5 + 1 <= e /\ \A k \in (p5 + 1)..e : s[k] # "\n" THEN e ELSE 0

\* Whether the rest of ING_RE can match once a piece has ended at position p
CanName(s, p) == NameEnd(s, p) # 0
CanWs3(s, p4) == \E p5 \in p4..Len(s) : AllIn(s, p4 + 1, p5, WS) /\ CanName(s, p5)
CanUnit(s, p3) == \E p4 \in p3..Len(s) : AllIn(s, p3 + 1, p4, Alpha) /\ CanWs3(s, p4)
CanWs2(s, p2) == \E p3 \in p2..Len(s) : AllIn(s, p2 + 1, p3, WS) /\ CanUnit(s, p3)
CanQty(s, p1) == \E p2 \in p1..Len(s) : (p2 = p1 \/ QtyMatches(s, p1 + 1, p2)) /\ CanWs2(s, p2)

\* ING_RE.match(s).  Every quantifier of ING_RE is greedy and the pieces
\* follow one another, so the backtracking matcher returns the match whose
\* piece ends <<p1, p2, p3, p4, p5>> are greatest in dictionary order; an
\* optional group that matched nothing is None.
EndWs1(s) == SetMax({p \in 0..Len(s) : AllIn(s, 1, p, WS) /\ CanQty(s, p)})
EndQty(s, p1) ==
    SetMax({p \in p1..Len(s) : (p = p1 \/ QtyMatches(s, p1 + 1, p)) /\ CanWs2(s, p)})
EndWs2(s, p2) == SetMax({p \in p2..Len(s) : AllIn(s, p2 + 1, p, WS) /\ CanUnit(s, p)})
EndUnit(s, p3) == SetMax({p \in p3..Len(s) : AllIn(s, p3 + 1, p, Alpha) /\ CanWs3(s, p)})
EndWs3(s, p4) == SetMax({p \in p4..Len(s) : AllIn(s, p4 + 1, p, WS) /\ CanName(s, p)})

Groups(s, p1, p2, p3, p4, p5) ==
    [matched |-> TRUE,
     qty  |-> IF p2 = p1 THEN None ELSE Sub(s, p1 + 1, p2),
     unit |-> IF p4 = p3 THEN None ELSE Sub(s, p3 + 1, p4),
     name |-> Sub(s, p5 + 1, NameEnd(s, p5))]

ING_RE_match(s) ==
    IF ~\E p \in 0..Len(s) : AllIn(s, 1, p, WS) /\ CanQty(s, p)
    THEN [matched |-> FALSE, qty |-> None, unit |-> None, name |-> None]
    ELSE LET p1 == EndWs1(s)
             p2 == EndQty(s, p1)
             p3 == EndWs2(s, p2)
             p4 == EndUnit(s, p3)
             p5 == EndWs3(s, p4)
         IN  Groups(s, p1, p2, p3, p4, p5)

parse_ingredient(raw) ==
    LET m == ING_RE_match(raw) IN
    IF ~m.matched
    THEN [raw |-> raw, quantity |-> None, unit |-> None, name |-> Strip(raw)]
    ELSE LET qty == m.qty
             unit == m.unit
             name == Or(m.name, <<>>)
             quantity == IF Truthy(qty) THEN parse_quantity(qty) ELSE None
             unit_n == normalize_unit(unit)
         IN  [raw |-> raw, quantity |-> quantity, unit |-> unit_n, name |-> Strip(name)]

----------------------------------------------------------------------------
(* scripts/ingest.py: split_delimited_field, parse_csv_cell *)

\* whether delimiter d (one or two characters) occurs in s at position k
At(s, d, k) == k + Len(d) - 1 <= Len(s) /\ Sub(s, k, k + Len(d) - 1) = d

Contains(s, d) == \E k \in 1..Len(s) : At(s, d, k)

\* str.split(d): cut at the occurrences of d found from left to right
RECURSIVE Split(_, _)
Split(s, d) ==
    IF ~Contains(s, d) THEN <<s>>
    ELSE LET k == CHOOSE i \in 1..Len(s) : At(s, d, i) /\ \A j \in 1..(i - 1) : ~At(s, d, j)
         IN  <<Sub(s, 1, k - 1)>> \o Split(Sub(s, k + Len(d), Len(s)), d)

\* the line boundaries of str.splitlines() among the characters modelled
LineEnds == {"\n", "\r"}

\* str.splitlines(): cut at every line boundary, "\r\n" being one boundary;
\* no final empty line
RECURSIVE SplitLines(_)
SplitLines(s) ==
    LET ends == {k \in 1..Len(s) : s[k] \in LineEnds}
    IN  IF s = <<>> THEN <<>>
        ELSE IF ends = {} THEN <<s>>
        ELSE LET k == CHOOSE i \in ends : \A j \in ends : i <= j
                 n == IF s[k] = "\r" /\ k < Len(s) /\ s[k + 1] = "\n" THEN 2 ELSE 1
             IN  <<Sub(s, 1, k - 1)>> \o SplitLines(Sub(s, k + n, Len(s)))

\* [p.strip() for p in parts if p.strip()]
RECURSIVE StripParts(_)
StripParts(parts) ==
    IF parts = <<>> THEN <<>>
    ELSE LET h == Strip(parts[1])
         IN  (IF h = <<>> THEN <<>> ELSE <<h>>) \o StripParts(Tail(parts))

split_delimited_field(val) ==
    IF ~Truthy(val) THEN <<>>
    ELSE IF Contains(val, <<"|", "|">>) THEN StripParts(Split(val, <<"|", "|">>))
    ELSE IF Contains(val, <<"\n">>) THEN StripParts(SplitLines(val))
    ELSE IF Contains(val, <<";">>) THEN StripParts(Split(val, <<";">>))
    ELSE IF Contains(val, <<"|">>) THEN StripParts(Split(val, <<"|">>))
    ELSE <<Strip(val)>>

\* first position from p on that holds no JSON whitespace
RECURSIVE SkipWs(_, _)
SkipWs(s, p) == IF p <= Len(s) /\ s[p] \in WS THEN SkipWs(s, p + 1) ELSE p

JsonFail == [ok |-> FALSE, kind |-> "none", elems |-> <<>>]

\* One array element from position p: a string literal without escapes (a raw
\* control character or a backslash in it makes the text no JSON of the
\* subset), a non-negative integer, an empty array or an empty object;
\* (ok, str(element), position after it)
JsonElem(s, p) ==
    IF p > Len(s) THEN [ok |-> FALSE, val |-> <<>>, next |-> p]
    ELSE IF s[p] = "\""
    THEN LET close == {q \in (p + 1)..Len(s) : s[q] = "\""}
         IN  IF close = {} THEN [ok |-> FALSE, val |-> <<>>, next |-> p]
             ELSE LET q == CHOOSE x \in close : \A y \in close : x <= y
                      body == Sub(s, p + 1, q - 1)
                  IN  IF \E k \in 1..Len(body) : body[k] \in {"\n", "\r", "\t", "\\"}
                      THEN [ok |-> FALSE, val |-> <<>>, next |-> p]
                      ELSE [ok |-> TRUE, val |-> body, next |-> q + 1]
    ELSE IF s[p] \in Digits
    THEN LET stop == {q \in p..Len(s) : s[q] \notin Digits}
             e == IF stop = {} THEN Len(s) ELSE (CHOOSE x \in stop : \A y \in stop : x <= y) - 1
         IN  IF s[p] = "0" /\ e > p THEN [ok |-> FALSE, val |-> <<>>, next |-> p]
             ELSE [ok |-> TRUE, val |-> Sub(s, p, e), next |-> e + 1]
    ELSE IF s[p] \in {"[", "{"}
    THEN LET q == SkipWs(s, p + 1)
         IN  IF q <= Len(s) /\ s[q] = (IF s[p] = "[" THEN "]" ELSE "}")
             THEN [ok |-> TRUE, val |-> <<s[p], s[q]>>, next |-> q + 1]
             ELSE [ok |-> FALSE, val |-> <<>>, next |-> p]
    ELSE [ok |-> FALSE, val |-> <<>>, next |-> p]

\* the elements of an array after its '[' or after a ',', from position p
RECURSIVE JsonElems(_, _, _)
JsonElems(s, p, acc) ==
    LET e == JsonElem(s, SkipWs(s, p))
        q == SkipWs(s, e.next)
    IN  IF ~e.ok \/ q > Len(s) THEN JsonFail
        ELSE IF s[q] = "," THEN JsonElems(s, q + 1, Append(acc, e.val))
        ELSE IF s[q] = "]" /\ q = Len(s) THEN [ok |-> TRUE, kind |-> "list", elems |-> Append(acc, e.val)]
        ELSE JsonFail

\* json.loads(v) for a stripped v that starts with '[' or '{', on the JSON
\* subset of the cells modelled: arrays of strings, integers, empty arrays
\* and empty objects, and the empty object.  For a list, elems holds str(p) of each element; for a dict,
\* the one element json.dumps(parsed).  ok = FALSE stands for the exception.
JsonLoads(v) ==
    LET q == SkipWs(v, 2)
    IN  IF v[1] = "[" THEN
            IF q = Len(v) /\ v[q] = "]" THEN [ok |-> TRUE, kind |-> "list", elems |-> <<>>]
            ELSE JsonElems(v, 2, <<>>)
        ELSE IF q = Len(v) /\ v[q] = "}" THEN [ok |-> TRUE, kind |-> "dict", elems |-> <<<<"{", "}">>>>]
        ELSE JsonFail

parse_csv_cell(val) ==
    IF ~Truthy(val) THEN <<>>
    ELSE LET v == Strip(val)
             parsed_json == IF v # <<>> /\ v[1] \in {"[", "{"} THEN JsonLoads(v) ELSE JsonFail
         IN  IF parsed_json.ok THEN parsed_json.elems
             ELSE split_delimited_field(v)

----------------------------------------------------------------------------
(* scripts/ingest.py: normalize_recipe *)

\* how many characters of the title stand in for a missing id
TitleIdLen == 64

Untitled == <<"U", "n", "t", "i", "t", "l", "e", "d">>

EmptyDict == <<"{}">>

\* str(x) of a str or of None
PyStr(v) == IF v = None THEN <<"N", "o", "n", "e">> ELSE v

\* [parse_ingredient(i) ... for i in ingredients], every i a str
RECURSIVE ParseIngredients(_)
ParseIngredients(ings) ==
    IF ings = <<>> THEN <<>>
    ELSE <<parse_ingredient(ings[1])>> \o ParseIngredients(Tail(ings))

\* the id normalize_recipe resolves
ResolveId(r) == Or(r.id, Or(r.url, Take(Or(r.title, <<>>), TitleIdLen)))

\* r: a dict with the keys id, url, title, ingredients, steps, nutrition,
\* source_url; a key the dict lacks is None here, or [] for the two lists
normalize_recipe(r) ==
    [id          |-> PyStr(ResolveId(r)),
     title       |-> Or(r.title, Untitled),
     ingredients |-> ParseIngredients(r.ingredients),
     steps       |-> r.steps,
     nutrition   |-> Or(r.nutrition, EmptyDict),
     source_url  |-> Or(r.url, r.source_url)]

\* title = row.get('title') or row.get('recipe_title') or ...
RowTitle(row) == Or(row.title, Or(row.recipe_title, Or(row.name, row.headline)))

\* steps_raw = row.get('steps') or row.get('directions') or ...
RowStepsRaw(row) == Or(row.steps, Or(row.directions, Or(row.instructions, row.description)))

\* item['steps'], after the description fallback
RowSteps(row) ==
    LET steps == parse_csv_cell(RowStepsRaw(row))
    IN  IF steps = <<>> /\ Truthy(row.description) THEN <<row.description>> ELSE steps

\* the dict run builds from a CSV row; it has no 'url' key
RowItem(row) ==
    [id          |-> Or(row.id, Or(row.url, RowTitle(row))),
     url         |-> None,
     title       |-> RowTitle(row),
     ingredients |-> parse_csv_cell(Or(row.ingredients, Or(row.ingredient, row.ingredients_list))),
     steps       |-> RowSteps(row),
     nutrition   |-> Or(row.nutrition, Or(row.nutrition_info, EmptyDict)),
     source_url  |-> Or(row.source_url, Or(row.url, row.source))]

----------------------------------------------------------------------------
(* The raw directory of scripts/ingest.py: run *)

\* most files in the raw directory
MaxFiles == 2

\* greatest sample limit passed to run
MaxLimit == 2

\* A JSON element that is a dict; ok = FALSE: an element that is no dict,
\* on which normalize_recipe raises AttributeError
JRec(id, url, title, ings, steps) ==
    [ok |-> TRUE, id |-> id, url |-> url, title |-> title, ingredients |-> ings,
     steps |-> steps, nutrition |-> None, source_url |-> None]

NotDict == [JRec(None, None, None, <<>>, <<>>) EXCEPT !.ok = FALSE]

\* A CSV row as csv.DictReader yields it; a column the file lacks is None.
\* ok = FALSE: reading this row raises (UnicodeDecodeError, csv.Error)
BlankRow ==
    [ok |-> TRUE, id |-> None, url |-> None, title |-> None, recipe_title |-> None,
     name |-> None, headline |-> None, steps |-> None, directions |-> None,
     instructions |-> None, description |-> None, ingredients |-> None,
     ingredient |-> None, ingredients_list |-> None, nutrition |-> None,
     nutrition_info |-> None, source_url |-> None, source |-> None]

BadRow == [BlankRow EXCEPT !.ok = FALSE]

LongTitle == [k \in 1..(TitleIdLen + 1) |-> "x"]

\* The files a raw directory is made of.  name: the rank of the path in
\* sorted(); suffix: p.suffix.lower(); loads: json.load(f) returns; isList:
\* isinstance(data, list); recs: the elements of data (data itself when it is
\* no list), or the rows of the CSV
FilePool == {
    [name |-> 1, suffix |-> "json", loads |-> TRUE, isList |-> TRUE,
     recs |-> << JRec(<<"a">>, None, <<"T">>, <<<<"1", " ", "c", "u", "p", " ", "w", "a", "t", "e", "r">>>>, <<<<"B", "o", "i", "l">>>>),
                 JRec(None, <<"u">>, <<"T">>, <<>>, <<>>) >>],
    [name |-> 2, suffix |-> "json", loads |-> TRUE, isList |-> FALSE,
     recs |-> << JRec(<<"a">>, <<"u">>, <<"T", "2">>, <<>>, <<<<"B", "o", "i", "l">>>>) >>],
    [name |-> 3, suffix |-> "json", loads |-> FALSE, isList |-> FALSE, recs |-> <<>>],
    [name |-> 4, suffix |-> "json", loads |-> TRUE, isList |-> TRUE,
     recs |-> << JRec(None, None, LongTitle, <<>>, <<>>),
                 NotDict,
                 JRec(<<"b">>, None, <<>>, <<>>, <<>>) >>],
    [name |-> 5, suffix |-> "csv", loads |-> TRUE, isList |-> TRUE,
     recs |-> << [BlankRow EXCEPT !.id = <<"a">>, !.title = <<"T", "c">>,
                                  !.ingredients = <<"[", "\"", "e", "g", "g", "\"", ",", " ", "\"", "1", " ", "c", "u", "p", " ", "m", "i", "l", "k", "\"", "]">>, !.steps = <<"M", "i", "x", " ", "|", "|", " ", "B", "a", "k", "e">>],
                 [BlankRow EXCEPT !.title = LongTitle, !.description = <<"M", "i", "x", ";", " ", "b", "a", "k", "e">>] >>],
    [name |-> 6, suffix |-> "csv", loads |-> TRUE, isList |-> TRUE,
     recs |-> << [BlankRow EXCEPT !.recipe_title = <<"R">>, !.url = <<"u">>,
                                  !.steps = <<>>, !.description = <<" ", "S", "t", "i", "r", " ">>],
                 BadRow,
                 [BlankRow EXCEPT !.id = <<"b">>] >>],
    [name |-> 7, suffix |-> "txt", loads |-> FALSE, isList |-> FALSE, recs |-> <<>>],
    [name |-> 8, suffix |-> "json", loads |-> TRUE, isList |-> TRUE,
     recs |-> << JRec(None, None, Take(LongTitle, TitleIdLen), <<>>, <<<<"B", "o", "i", "l">>>>),
                 JRec(<<>>, <<"b">>, None, <<>>, <<>>) >>] }

\* the directory listings: up to MaxFiles files of the pool, in any order
RECURSIVE Listings(_)
Listings(n) ==
    IF n = 0 THEN {<<>>}
    ELSE LET shorter == Listings(n - 1)
         IN  shorter \cup {Append(l, f) : l \in {x \in shorter : Len(x) = n - 1},
                                          f \in FilePool}

Distinct(l) == \A i, j \in 1..Len(l) : i # j => l[i].name # l[j].name

\* sorted(raw_dir.glob('*')): insertion by path
RECURSIVE Sorted(_)
Insert(l, f) ==
    LET before == {k \in 1..Len(l) : l[k].name < f.name}
        n == Cardinality(before)
    IN  Sub(l, 1, n) \o <<f>> \o Sub(l, n + 1, Len(l))
Sorted(l) == IF l = <<>> THEN <<>> ELSE Insert(Sorted(Sub(l, 1, Len(l) - 1)), l[Len(l)])

\* content of out_file: whole = a complete JSON text of the records recs;
\* otherwise recs is what has been written so far of a text not yet closed
NoFile == [whole |-> FALSE, recs |-> <<>>]

PrevOuts == {NoFile, [whole |-> TRUE, recs |-> <<normalize_recipe(JRec(<<"o", "l", "d">>, None, None, <<>>, <<>>))>>]}

----------------------------------------------------------------------------
(* scripts/ingest.py: run *)

\* Files in the order the directory is listed
Files_unsorted == rawDir

\* sorted(raw_dir.glob('*'))
Files == Sorted(rawDir)

\* LimitReached with the comparison off by one
LimitReached_after(c) == sample_limit # 0 /\ Len(c) > sample_limit

\* sample_limit and len(collected) >= sample_limit
LimitReached(c) == sample_limit # 0 /\ Len(c) >= sample_limit

\* nr = normalize_recipe(r), or normalize_recipe(item) for a CSV row
NormalizeElem(f, e) ==
    IF f.suffix = "csv" THEN normalize_recipe(RowItem(e)) ELSE normalize_recipe(e)

\* Admit with the later record replacing the one already collected
Admit_lastWins(st, nr) ==
    IF nr.id \in st.seen_ids
    THEN [st EXCEPT !.collected = [k \in 1..Len(@) |-> IF @[k].id = nr.id THEN nr ELSE @[k]]]
    ELSE [collected |-> Append(st.collected, nr), seen_ids |-> st.seen_ids \cup {nr.id}]

\* if nr['id'] in seen_ids: continue / seen_ids.add(...) / collected.append(nr)
Admit(st, nr) ==
    IF nr.id \in st.seen_ids THEN st
    ELSE [collected |-> Append(st.collected, nr), seen_ids |-> st.seen_ids \cup {nr.id}]

\* history of a run: the files opened, the records normalized, the files
\* skipped on an exception, the output file found at the start; which run
\* on this directory it is, and the listing and the output of the first one
NoTrail(prev) ==
    [opened |-> <<>>, scanned |-> <<>>, skipped |-> {}, prev |-> prev,
     nth |-> 1, firstDir |-> <<>>, firstOut |-> prev]

IngestInit ==
    /\ rawDir \in {l \in Listings(MaxFiles) : Distinct(l)}
    /\ sample_limit \in 0..MaxLimit
    /\ pc = "start"
    /\ fi = 0
    /\ items = <<>>
    /\ collected = <<>>
    /\ seen_ids = {}
    /\ outFile \in PrevOuts
    /\ trail = NoTrail(outFile)

\* raw_dir.mkdir(...); collected = []; seen_ids = set(); sorted(raw_dir.glob('*'))
StartRun ==
    /\ pc = "start"
    /\ pc' = "loop"
    /\ fi' = 1
    /\ UNCHANGED <<otherVars, rawDir, sample_limit, items, collected, seen_ids, outFile, trail>>

\* the raw directory cannot be created or listed: the exception leaves run
ListDirFails ==
    /\ pc = "start"
    /\ pc' = "aborted_rawdir"
    /\ UNCHANGED <<otherVars, rawDir, sample_limit, fi, items, collected, seen_ids, outFile, trail>>

\* the for loop over the files is exhausted
LoopEnd ==
    /\ pc = "loop"
    /\ fi > Len(Files)
    /\ pc' = "write"
    /\ UNCHANGED <<otherVars, rawDir, sample_limit, fi, items, collected, seen_ids, outFile, trail>>

\* a .json file: open, json.load, items = data or [data]
OpenJson ==
    /\ pc = "loop"
    /\ fi <= Len(Files)
    /\ Files[fi].suffix = "json"
    /\ Files[fi].loads
    /\ items' = Files[fi].recs
    /\ trail' = [trail EXCEPT !.opened = Append(@, fi)]
    /\ pc' = "iter"
    /\ UNCHANGED <<otherVars, rawDir, sample_limit, fi, collected, seen_ids, outFile>>

\* a .json file on which open or json.load raises: except, print, next file
JsonLoadRaises ==
    /\ pc = "loop"
    /\ fi <= Len(Files)
    /\ Files[fi].suffix = "json"
    /\ ~Files[fi].loads
    /\ trail' = [trail EXCEPT !.opened = Append(@, fi), !.skipped = @ \cup {fi}]
    /\ fi' = fi + 1
    /\ UNCHANGED <<otherVars, rawDir, sample_limit, pc, items, collected, seen_ids, outFile>>

\* a .csv file: detect the encoding, open, csv.DictReader
OpenCsv ==
    /\ pc = "loop"
    /\ fi <= Len(Files)
    /\ Files[fi].suffix = "csv"
    /\ items' = Files[fi].recs
    /\ trail' = [trail EXCEPT !.opened = Append(@, fi)]
    /\ pc' = "iter"
    /\ UNCHANGED <<otherVars, rawDir, sample_limit, fi, collected, seen_ids, outFile>>

\* any other suffix: continue
SkipUnknown ==
    /\ pc = "loop"
    /\ fi <= Len(Files)
    /\ Files[fi].suffix \notin {"json", "csv"}
    /\ fi' = fi + 1
    /\ UNCHANGED <<otherVars, rawDir, sample_limit, pc, items, collected, seen_ids, outFile, trail>>

\* one pass of the inner for loop over a dict or a row that reads
NextRecord ==
    /\ pc = "iter"
    /\ items # <<>>
    /\ Head(items).ok
    /\ LET nr == NormalizeElem(Files[fi], Head(items))
           st == Admit([collected |-> collected, seen_ids |-> seen_ids], nr)
       IN  /\ collected' = st.collected
           /\ seen_ids' = st.seen_ids
           /\ trail' = [trail EXCEPT !.scanned =
                            Append(@, [file |-> fi, csv |-> Files[fi].suffix = "csv",
                                       src |-> Head(items), nr |-> nr])]
           /\ IF nr.id \notin seen_ids /\ LimitReached(st.collected)
              THEN pc' = "after" /\ items' = <<>>          \* break
              ELSE pc' = "iter" /\ items' = Tail(items)
    /\ UNCHANGED <<otherVars, rawDir, sample_limit, fi, outFile>>

\* RecordRaises without the try/except around the file: the exception leaves run
RecordRaises_uncaught ==
    /\ pc = "iter"
    /\ items # <<>>
    /\ ~Head(items).ok
    /\ trail' = [trail EXCEPT !.skipped = @ \cup {fi}]
    /\ pc' = "aborted_file"
    /\ UNCHANGED <<otherVars, rawDir, sample_limit, fi, items, collected, seen_ids, outFile>>

\* normalize_recipe raises on an element that is no dict, or the reader
\* raises on a row: except, print, next file
RecordRaises ==
    /\ pc = "iter"
    /\ items # <<>>
    /\ ~Head(items).ok
    /\ trail' = [trail EXCEPT !.skipped = @ \cup {fi}]
    /\ items' = <<>>
    /\ fi' = fi + 1
    /\ pc' = "loop"
    /\ UNCHANGED <<otherVars, rawDir, sample_limit, collected, seen_ids, outFile>>

\* the inner for loop is exhausted
IterEnd ==
    /\ pc = "iter"
    /\ items = <<>>
    /\ pc' = "after"
    /\ UNCHANGED <<otherVars, rawDir, sample_limit, fi, items, collected, seen_ids, outFile, trail>>

\* if sample_limit and len(collected) >= sample_limit: break
AfterFile ==
    /\ pc = "after"
    /\ IF LimitReached(collected)
       THEN pc' = "write" /\ fi' = fi
       ELSE pc' = "loop" /\ fi' = fi + 1
    /\ UNCHANGED <<otherVars, rawDir, sample_limit, items, collected, seen_ids, outFile, trail>>

\* out_file.parent.mkdir(...); open(out_file, 'w') truncates the file
OpenOut ==
    /\ pc = "write"
    /\ outFile' = [whole |-> FALSE, recs |-> <<>>]
    /\ pc' = "dump"
    /\ UNCHANGED <<otherVars, rawDir, sample_limit, fi, items, collected, seen_ids, trail>>

\* the output cannot be opened for writing: the exception leaves run
OpenOutFails ==
    /\ pc = "write"
    /\ pc' = "aborted_output"
    /\ UNCHANGED <<otherVars, rawDir, sample_limit, fi, items, collected, seen_ids, outFile, trail>>

\* json.dump writes the text of the next record
DumpRecord ==
    /\ pc = "dump"
    /\ Len(outFile.recs) < Len(collected)
    /\ outFile' = [outFile EXCEPT !.recs = Append(@, collected[Len(@) + 1])]
    /\ UNCHANGED <<otherVars, rawDir, sample_limit, pc, fi, items, collected, seen_ids, trail>>

\* json.dump writes the closing bracket; the with block closes the file
CloseOut ==
    /\ pc = "dump"
    /\ Len(outFile.recs) = Len(collected)
    /\ outFile' = [outFile EXCEPT !.whole = TRUE]
    /\ pc' = "done"
    /\ UNCHANGED <<otherVars, rawDir, sample_limit, fi, items, collected, seen_ids, trail>>

\* run is called again on the unchanged directory, with the same limit; the
\* filesystem may list the files in another order
RunAgain ==
    /\ pc = "done"
    /\ trail.nth = 1
    /\ rawDir' \in {l \in Listings(Len(rawDir)) :
                      /\ Len(l) = Len(rawDir)
                      /\ {l[k] : k \in 1..Len(l)} = {rawDir[k] : k \in 1..Len(rawDir)}}
    /\ pc' = "start"
    /\ fi' = 0
    /\ items' = <<>>
    /\ collected' = <<>>
    /\ seen_ids' = {}
    /\ trail' = [NoTrail(outFile) EXCEPT !.nth = 2, !.firstDir = rawDir, !.firstOut = outFile]
    /\ UNCHANGED <<otherVars, sample_limit, outFile>>

\* the process is killed while run is under way
Crash ==
    /\ pc \in {"start", "loop", "iter", "after", "write", "dump"}
    /\ pc' = "crashed"
    /\ UNCHANGED <<otherVars, rawDir, sample_limit, fi, items, collected, seen_ids, outFile, trail>>

----------------------------------------------------------------------------
(* scripts/scaledown_client.py: _simulate_compress, compress_text *)

\* bytes zlib.compress adds to a short text in which no three bytes repeat:
\* 2 of header, 2 of block framing, 4 of checksum
ZlibOverhead == 8

\* resp.get('orig_len') of a dict without the key: None, among integers
NoLen == -1

\* base64 of zlib.compress(text): a text other than `text` from which
\* _simulate_decompress recovers `text`
B64Zlib(text) == <<"z", "|">> \o text

\* a dict as the record of what .get() returns for each key run reads
_simulate_compress(text) ==
    [raised |-> FALSE, method |-> "simulated", compressed_blob_b64 |-> B64Zlib(text),
     meta |-> None, data |-> None, orig_len |-> Len(text), compressed_len |-> Len(text) + ZlibOverhead]

\* How a call of the remote backend can go:
\*   conn_error, timeout  requests.post raises
\*   http_error           the status is no success: resp.raise_for_status() raises
\*   not_json             the body is no JSON: resp.json() raises
\*   json_scalar          the body is null, a boolean or a number: `'...' in data`
\*                        raises TypeError
\*   json_no_get          a string or an array that holds one of the three key
\*                        names: data.get raises AttributeError
\*   json_blob            an object with one of the keys compressed_blob_b64, blob,
\*                        compressed
\*   json_other           an object, an array or a string that holds none of them
RemoteOutcomes == {"conn_error", "timeout", "http_error", "not_json", "json_scalar",
                   "json_no_get", "json_blob", "json_other"}

\* RemoteRaises without resp.raise_for_status()
RemoteRaises_noStatusCheck(o) ==
    o \in {"conn_error", "timeout", "not_json", "json_scalar", "json_no_get"}

\* whether the try block of compress_text raises
RemoteRaises(o) ==
    o \in {"conn_error", "timeout", "http_error", "not_json", "json_scalar", "json_no_get"}

\* the outcomes in which the call of the remote backend fails: transport
\* error, timeout, non-success status, a body that is no JSON document or
\* not one that can hold fields
RemoteFailures ==
    {"conn_error", "timeout", "http_error", "not_json", "json_scalar", "json_no_get"}

RemoteBlob == <<"b", "l", "o", "b">>
RemoteMeta == <<"m", "e", "t", "a">>

compress_text(text, configured, o) ==
    IF configured /\ ~RemoteRaises(o)
    THEN IF o = "json_blob"
         THEN [raised |-> FALSE, method |-> "api", compressed_blob_b64 |-> RemoteBlob,
               meta |-> RemoteMeta, data |-> None, orig_len |-> NoLen, compressed_len |-> NoLen]
         ELSE [raised |-> FALSE, method |-> "api", compressed_blob_b64 |-> None,
               meta |-> RemoteMeta, data |-> None, orig_len |-> NoLen, compressed_len |-> NoLen]
    ELSE _simulate_compress(text)                   \* except Exception: pass

----------------------------------------------------------------------------
(* scripts/compress_recipes.py: build_text_for_recipe, run *)

\* most recipes in in_file
MaxRecipes == 2

\* greatest sample passed to run
MaxSample == 1

RECURSIVE Join(_, _)
Join(parts, sep) ==
    IF parts = <<>> THEN <<>>
    ELSE IF Len(parts) = 1 THEN parts[1]
    ELSE parts[1] \o sep \o Join(Tail(parts), sep)

\* i.get('raw') or i.get('name', '') for each ingredient dict
IngLines(ings) == [k \in 1..Len(ings) |-> Or(ings[k].raw, ings[k].name)]

\* json.dumps of a nutrition that is a str without characters to escape
JsonDumpsStr(s) == <<"\"">> \o s \o <<"\"">>

build_text_for_recipe(r) ==
    Join(   <<<<"T", "I", "T", "L", "E", ":", " ">> \o r.title>>
         \o (IF r.ingredients # <<>> THEN <<<<"\n", "I", "N", "G", "R", "E", "D", "I", "E", "N", "T", "S", ":", "\n">>>> \o IngLines(r.ingredients) ELSE <<>>)
         \o (IF r.steps # <<>> THEN <<<<"\n", "S", "T", "E", "P", "S", ":", "\n">>>> \o r.steps ELSE <<>>)
         \o (IF r.nutrition \notin {None, EmptyDict, <<>>}
             THEN <<<<"\n", "N", "U", "T", "R", "I", "T", "I", "O", "N", ":", "\n">>, JsonDumpsStr(r.nutrition)>> ELSE <<>>),
         <<"\n">>)

\* str(i) for i >= 0
RECURSIVE IntToStr(_)
IntToStr(i) ==
    LET d == <<"0", "1", "2", "3", "4", "5", "6", "7", "8", "9">>[(i % 10) + 1]
    IN  IF i < 10 THEN <<d>> ELSE Append(IntToStr(i \div 10), d)

\* f'recipe_{i}'
DefaultId(i) == <<"r", "e", "c", "i", "p", "e", "_">> \o IntToStr(i)

\* rid = r.get('id') or f'recipe_{i}'
RecipeId(r, i) == Or(r.id, DefaultId(i))

SafeChars == Alpha \cup Digits \cup {".", "_", "-"}

\* s.strip('_')
StripUnderscore(s) ==
    LET keep == {k \in 1..Len(s) : s[k] # "_"}
    IN  IF keep = {} THEN <<>>
        ELSE Sub(s, CHOOSE k \in keep : \A j \in keep : k <= j, SetMax(keep))

\* re.sub(r'[^A-Za-z0-9._-]', '_', str(rid)).strip('_'), or f'recipe_{i}'
SafeName(rid, i) ==
    LET safe == StripUnderscore([k \in 1..Len(rid) |-> IF rid[k] \in SafeChars THEN rid[k] ELSE "_"])
    IN  IF safe = <<>> THEN DefaultId(i) ELSE safe

\* BlobName without the positional prefix
BlobName_noIndex(r, i) == SafeName(PyStr(RecipeId(r, i)), i) \o <<".", "j", "s", "o", "n">>

\* blob_name = f"{i}_{safe}.json"
BlobName(r, i) == IntToStr(i) \o <<"_">> \o SafeName(PyStr(RecipeId(r, i)), i) \o <<".", "j", "s", "o", "n">>

\* a canonical recipe of in_file
CRec(id, title, ings, steps, nutrition) ==
    [id |-> id, title |-> title, ingredients |-> ings, steps |-> steps,
     nutrition |-> nutrition, source_url |-> None]

\* The recipes in_file is made of.  Each text has one section at most, so
\* that ZlibOverhead is what zlib adds to it.
RecipePool == {
    CRec(<<"a">>, <<"T">>, <<>>, <<>>, EmptyDict),
    CRec(<<"a", "/", "b">>, <<"T", "e", "a">>, <<parse_ingredient(<<"1", " ", "c", "u", "p", " ", "w", "a", "t", "e", "r">>)>>, <<>>, EmptyDict),
    CRec(<<"a", "_", "b">>, <<"T", "e", "a">>, <<>>, <<<<"B", "o", "i", "l">>>>, EmptyDict),
    CRec(<<"/">>, <<"T", "e", "a">>, <<>>, <<>>, <<"l", "i", "t", "e">>),
    CRec(<<>>, <<"T">>, <<>>, <<>>, EmptyDict),
    CRec(<<"1", "_", "a">>, <<"T">>, <<>>, <<>>, EmptyDict) }

NoResp == [raised |-> FALSE, method |-> "none", compressed_blob_b64 |-> None,
           meta |-> None, data |-> None, orig_len |-> NoLen, compressed_len |-> NoLen]

NoIndex == [count |-> 0, entries |-> <<>>]

\* content of index_file: as for out_file
NoIndexFile == [whole |-> FALSE, index |-> NoIndex]

CompIdle ==
    /\ recipes = <<>> /\ sample = 0 /\ remote = FALSE /\ cpc = "idle" /\ ci = 0
    /\ call = "none" /\ resp = NoResp /\ index = NoIndex /\ blobs = {}
    /\ indexFile = NoIndexFile /\ fellBack = {}

CompInit ==
    /\ recipes \in UNION {[1..n -> RecipePool] : n \in 0..MaxRecipes}
    /\ sample \in 0..MaxSample
    /\ remote \in BOOLEAN
    /\ cpc = "start"
    /\ ci = 0
    /\ call = "none"
    /\ resp = NoResp
    /\ index = NoIndex
    /\ blobs = {}
    /\ indexFile \in {NoIndexFile, [whole |-> TRUE, index |-> NoIndex]}
    /\ fellBack = {}

\* out_dir.mkdir(...); recipes = json.load(f); index = {'count': 0, 'entries': []}
CStart ==
    /\ cpc = "start"
    /\ cpc' = "loop"
    /\ UNCHANGED <<ingestVars, parseVars, cellVars, statsVars, recipes, sample, remote, ci, call, resp, index,
                   blobs, indexFile, fellBack>>

\* the for loop ends: recipes exhausted, or `if sample and i >= sample: break`
CLoopEnd ==
    /\ cpc = "loop"
    /\ ci >= Len(recipes) \/ (sample # 0 /\ ci >= sample)
    /\ cpc' = "index"
    /\ UNCHANGED <<ingestVars, parseVars, cellVars, statsVars, recipes, sample, remote, ci, call, resp, index,
                   blobs, indexFile, fellBack>>

\* rid, safe, text = build_text_for_recipe(r), resp = compress_text(text)
CCompress ==
    /\ cpc = "loop"
    /\ ci < Len(recipes)
    /\ ~(sample # 0 /\ ci >= sample)
    /\ \E o \in (IF remote THEN RemoteOutcomes ELSE {"none"}) :
          /\ call' = o
          /\ resp' = compress_text(build_text_for_recipe(recipes[ci + 1]), remote, o)
    /\ cpc' = "compressed"
    /\ UNCHANGED <<ingestVars, parseVars, cellVars, statsVars, recipes, sample, remote, ci, index, blobs,
                   indexFile, fellBack>>

\* the dict run writes to the blob file
BlobObj(r, i, rsp) ==
    [id |-> RecipeId(r, i),
     method |-> rsp.method,
     compressed_blob_b64 |-> Or(rsp.compressed_blob_b64, Or(rsp.meta, rsp.data)),
     orig_len |-> rsp.orig_len,
     compressed_len |-> rsp.compressed_len]

\* write the blob file, append the index entry, index['count'] += 1; an
\* exception out of compress_text would leave run, which catches nothing
CWriteBlob ==
    /\ cpc = "compressed"
    /\ IF resp.raised
       THEN /\ cpc' = "aborted"
            /\ UNCHANGED <<ci, index, blobs, fellBack, call, resp>>
       ELSE LET r == recipes[ci + 1]
                obj == BlobObj(r, ci, resp)
                nm == BlobName(r, ci)
            IN  /\ blobs' = {b \in blobs : b.name # nm} \cup {[name |-> nm, by |-> ci, obj |-> obj]}
                /\ index' = [count |-> index.count + 1,
                             entries |-> Append(index.entries,
                                 [id |-> obj.id, blob |-> nm, method |-> obj.method,
                                  orig_len |-> obj.orig_len, compressed_len |-> obj.compressed_len])]
                /\ fellBack' = IF remote /\ call \in RemoteFailures
                               THEN fellBack \cup {ci} ELSE fellBack
                /\ ci' = ci + 1
                /\ call' = "none"
                /\ resp' = NoResp
                /\ cpc' = "loop"
    /\ UNCHANGED <<ingestVars, parseVars, cellVars, statsVars, recipes, sample, remote, indexFile>>

\* open(index_file, 'w') truncates the file
COpenIndex ==
    /\ cpc = "index"
    /\ indexFile' = NoIndexFile
    /\ cpc' = "dump"
    /\ UNCHANGED <<ingestVars, parseVars, cellVars, statsVars, recipes, sample, remote, ci, call, resp, index,
                   blobs, fellBack>>

\* json.dump(index, ix); the with block closes the file
CDumpIndex ==
    /\ cpc = "dump"
    /\ indexFile' = [whole |-> TRUE, index |-> index]
    /\ cpc' = "done"
    /\ UNCHANGED <<ingestVars, parseVars, cellVars, statsVars, recipes, sample, remote, ci, call, resp, index,
                   blobs, fellBack>>

\* the process is killed while run is under way
CCrash ==
    /\ cpc \in {"start", "loop", "compressed", "index", "dump"}
    /\ cpc' = "crashed"
    /\ UNCHANGED <<ingestVars, parseVars, cellVars, statsVars, recipes, sample, remote, ci, call, resp, index,
                   blobs, indexFile, fellBack>>

----------------------------------------------------------------------------
(* Calls of parse_ingredient on ingredient lines *)

\* longest ingredient line enumerated character by character
MaxIngLen == 3

IngAlphabet == {"a", "1", " ", "/", ".", "\n"}

Strings(A, n) == UNION {[1..k -> A] : k \in 0..n}

\* quantity texts with the number each denotes (None: it denotes none)
QtyPool == {
    [s |-> <<"1">>, val |-> <<1, 1>>],
    [s |-> <<"1", "2">>, val |-> <<12, 1>>],
    [s |-> <<"1", ".", "5">>, val |-> <<3, 2>>],
    [s |-> <<"0", ".", "2", "5">>, val |-> <<1, 4>>],
    [s |-> <<"3", "/", "4">>, val |-> <<3, 4>>],
    [s |-> <<"1", " ", "1", "/", "2">>, val |-> <<3, 2>>],
    [s |-> <<"2", " ", "3", "/", "4">>, val |-> <<11, 4>>],
    [s |-> <<"1", "/", "0">>, val |-> None],
    [s |-> <<"1", " ", "1", "/", "0">>, val |-> None] }

NamePool == { <<"w", "a", "t", "e", "r">>,
              <<"o", "i", "l", ",", " ", "h", "o", "t">>,
              <<"2", "%", " ", "m", "i", "l", "k">> }

\* ingredient lines without a leading number
PlainLines == { <<"s", "a", "l", "t", " ", "t", "o", " ", "t", "a", "s", "t", "e">>,
                <<"s", "a", "l", "t">>,
                <<" ", "a", " ", "p", "i", "n", "c", "h", " ">>,
                <<"(", "o", "p", "t", ")">> }

NoForm == [qty |-> [s |-> <<>>, val |-> None], unit |-> <<>>, name |-> <<>>]

NoParse == [raw |-> None, quantity |-> None, unit |-> None, name |-> None]

ParseIdle == ppc = "idle" /\ ing_raw = <<>> /\ form = NoForm /\ parsed = NoParse

ParseInit ==
    /\ ppc = "call"
    /\ parsed = NoParse
    /\ \/ /\ form \in [qty : QtyPool, unit : UnitKeys, name : NamePool]
          /\ ing_raw = form.qty.s \o <<" ">> \o form.unit \o <<" ">> \o form.name
       \/ /\ form = NoForm
          /\ ing_raw \in Strings(IngAlphabet, MaxIngLen) \cup PlainLines

\* parse_ingredient(ing_raw) returns
ParseIngredient ==
    /\ ppc = "call"
    /\ parsed' = parse_ingredient(ing_raw)
    /\ ppc' = "returned"
    /\ UNCHANGED <<ingestVars, compVars, cellVars, statsVars, ing_raw, form>>

----------------------------------------------------------------------------
(* Calls of parse_csv_cell on cell texts *)

\* longest cell text enumerated character by character
MaxCellLen == 3

CellAlphabet == {"a", "1", " ", "|", ";", "\n", "\r", "[", "]", "{", "}", "\"", ","}

\* longer cell texts
CellPool == {
    <<"[", "\"", "e", "g", "g", "\"", ",", "\"", "f", "l", "o", "u", "r", "\"", "]">>,
    <<"e", "g", "g", ";", " ", "f", "l", "o", "u", "r">>,
    <<"e", "g", "g", " ", "|", "|", " ", "f", "l", "o", "u", "r", " ", "|", "|", " ", "m", "i", "l", "k">>,
    <<"a", ";", "b", "|", "c", "\n", "d">>,
    <<"a", "|", "|", "|", "b", ";", "c">>,
    <<"a", "\r", "b", "\n", "c">>,
    <<"a", "\r", "\n", "b", ";", "c">>,
    <<" ", "[", "1", ",", " ", "[", "]", ",", "{", "}", "]", " ">>,
    <<"[", "1", "]", ";", "a">>,
    <<" ", "{", " ", "}", "\n">> }

NoCell == <<"-">>

CellIdle == kpc = "idle" /\ cell_val = None /\ cell_out = NoCell

CellInit ==
    /\ kpc = "call"
    /\ cell_val \in Strings(CellAlphabet, MaxCellLen) \cup CellPool \cup {None}
    /\ cell_out = NoCell

\* parse_csv_cell(cell_val) returns
ParseCsvCell ==
    /\ kpc = "call"
    /\ cell_out' = parse_csv_cell(cell_val)
    /\ kpc' = "returned"
    /\ UNCHANGED <<ingestVars, compVars, parseVars, statsVars, cell_val>>

----------------------------------------------------------------------------
(* scripts/compress_stats.py and backend/app/main.py: load_compressed_index, *)
(* compress_status, compress_status_summary                                  *)

\* most entries of an index enumerated from EntryPool
MaxEntries == 2

\* greatest limit of a /compress-status query
MaxQueryLimit == 2

\* limit = min(5000, ...) of compress_status
StatusLimitCap == 5000

\* bool(v) of an orig_len or compressed_len: None and 0 are falsy
LenTruthy(v) == v # NoLen /\ v # 0

\* v or 0
OrZero(v) == IF LenTruthy(v) THEN v ELSE 0

\* (e.get('orig_len') or 0) - (e.get('compressed_len') or 0)
Saved(e) == OrZero(e.orig_len) - OrZero(e.compressed_len)

\* sum(Saved(e) for e in entries if e.get('orig_len'))
RECURSIVE BytesSaved(_)
BytesSaved(entries) ==
    IF entries = <<>> THEN 0
    ELSE (IF LenTruthy(Head(entries).orig_len) THEN Saved(Head(entries)) ELSE 0)
         + BytesSaved(Tail(entries))

\* an index entry: the keys the three programs read
IEntry(id, o, c) == [id |-> id, orig_len |-> o, compressed_len |-> c]

\* the entries indexes are made of: lengths present, missing (NoLen) and 0;
\* 0 and 8 are what _simulate_compress gives for the empty text
EntryPool == {
    IEntry(<<"a">>, 100, 40),
    IEntry(<<"b">>, 50, 60),
    IEntry(<<"c">>, NoLen, 10),
    IEntry(<<"a">>, NoLen, NoLen),
    IEntry(<<"d">>, 0, ZlibOverhead),
    IEntry(<<"e">>, 7, NoLen),
    IEntry(<<"1">>, 8, 16) }

\* the index of three entries with savings 60, -10 and none
ExampleIndex ==
    [hasCount |-> TRUE, count |-> 3,
     entries |-> <<IEntry(<<"a">>, 100, 40), IEntry(<<"b">>, 50, 60), IEntry(<<"c">>, NoLen, 10)>>]

\* an index as compress_recipes.run writes it (count = len(entries)), or
\* one without the key count
Indexes ==
    {ExampleIndex} \cup
    {[hasCount |-> h, count |-> IF h THEN Len(es) ELSE 0, entries |-> es] :
        h \in BOOLEAN, es \in UNION {[1..n -> EntryPool] : n \in 0..MaxEntries}}

NoCache == [loaded |-> FALSE, idx |-> [hasCount |-> TRUE, count |-> 0, entries |-> <<>>]]

\* the query of GET /compress-status: limit (given or None) and ids
\* (the values of the repeated parameter; none: None)
NoQuery == [hasLimit |-> FALSE, limit |-> 0, ids |-> {}]

Queries ==
    {[hasLimit |-> h, limit |-> IF h THEN l ELSE 0, ids |-> i] :
        h \in BOOLEAN, l \in -1..MaxQueryLimit, i \in {{}, {<<"a">>}, {<<"b">>, <<"z">>}, {<<"1">>}}}

NoOut == [done |-> FALSE, count |-> 0, bytes_saved |-> 0, entries |-> <<>>, query |-> NoQuery]

StatsIdle ==
    /\ index_json = NoCache.idx /\ index_cache = NoCache
    /\ script_out = NoOut /\ status_out = NoOut /\ summary_out = NoOut

StatsInit ==
    /\ index_json \in Indexes
    /\ index_cache = NoCache
    /\ script_out = NoOut
    /\ status_out = NoOut
    /\ summary_out = NoOut

\* load_compressed_index(): the cache if set, otherwise the file, which it caches
LoadedIndex == IF index_cache.loaded THEN index_cache.idx ELSE index_json

\* [e for e in entries if str(e.get('id')) in wanted]
RECURSIVE FilterIds(_, _)
FilterIds(entries, wanted) ==
    IF entries = <<>> THEN <<>>
    ELSE (IF PyStr(Head(entries).id) \in wanted THEN <<Head(entries)>> ELSE <<>>)
         \o FilterIds(Tail(entries), wanted)

\* entries[:limit] for limit >= 0
StatusEntries(entries, q) ==
    IF q.ids # {} THEN FilterIds(entries, {PyStr(i) : i \in q.ids})
    ELSE IF q.hasLimit
    THEN LET lo == IF StatusLimitCap < q.limit THEN StatusLimitCap ELSE q.limit
             limit == IF lo < 0 THEN 0 ELSE lo
         IN  Take(entries, Min(limit, Len(entries)))
    ELSE entries

\* compress_stats.py: count = idx.get('count', len(entries)), bytes_saved
CompressStatsScript ==
    /\ ~script_out.done
    /\ script_out' = [NoOut EXCEPT !.done = TRUE,
                          !.count = IF index_json.hasCount THEN index_json.count
                                    ELSE Len(index_json.entries),
                          !.bytes_saved = BytesSaved(index_json.entries)]
    /\ UNCHANGED <<ingestVars, compVars, parseVars, cellVars, index_json, index_cache,
                   status_out, summary_out>>

\* GET /compress-status?limit=..&ids=..
CompressStatus ==
    /\ ~status_out.done
    /\ \E q \in Queries :
          LET idx == LoadedIndex
          IN  /\ index_cache' = [loaded |-> TRUE, idx |-> idx]
              /\ status_out' = [done |-> TRUE,
                                count |-> IF idx.hasCount THEN idx.count ELSE 0,
                                entries |-> StatusEntries(idx.entries, q),
                                bytes_saved |-> BytesSaved(idx.entries),
                                query |-> q]
    /\ UNCHANGED <<ingestVars, compVars, parseVars, cellVars, index_json, script_out,
                   summary_out>>

\* GET /compress-status/summary
CompressStatusSummary ==
    /\ ~summary_out.done
    /\ LET idx == LoadedIndex
       IN  /\ index_cache' = [loaded |-> TRUE, idx |-> idx]
           /\ summary_out' = [NoOut EXCEPT !.done = TRUE,
                                  !.count = IF idx.hasCount THEN idx.count ELSE 0,
                                  !.bytes_saved = BytesSaved(idx.entries)]
    /\ UNCHANGED <<ingestVars, compVars, parseVars, cellVars, index_json, script_out,
                   status_out>>

IngestIdle ==
    /\ rawDir = <<>> /\ sample_limit = 0 /\ pc = "idle" /\ fi = 0 /\ items = <<>>
    /\ collected = <<>> /\ seen_ids = {} /\ outFile = NoFile /\ trail = NoTrail(NoFile)

InitParse == ParseInit /\ IngestIdle /\ CompIdle /\ CellIdle /\ StatsIdle

NextParse == ParseIngredient

SpecParse == InitParse /\ [][NextParse]_vars

Init == IngestInit /\ ParseIdle /\ CompIdle /\ CellIdle /\ StatsIdle

InitCompress == CompInit /\ IngestIdle /\ ParseIdle /\ CellIdle /\ StatsIdle

NextCompress == CStart \/ CLoopEnd \/ CCompress \/ CWriteBlob \/ COpenIndex \/ CDumpIndex \/ CCrash

SpecCompress == InitCompress /\ [][NextCompress]_vars

InitCell == CellInit /\ IngestIdle /\ ParseIdle /\ CompIdle /\ StatsIdle

NextCell == ParseCsvCell

SpecCell == InitCell /\ [][NextCell]_vars

InitStats == StatsInit /\ IngestIdle /\ ParseIdle /\ CompIdle /\ CellIdle

NextStats == CompressStatsScript \/ CompressStatus \/ CompressStatusSummary

SpecStats == InitStats /\ [][NextStats]_vars

Next ==
    \/ StartRun \/ ListDirFails \/ LoopEnd \/ OpenJson \/ JsonLoadRaises \/ OpenCsv
    \/ SkipUnknown \/ NextRecord \/ RecordRaises \/ IterEnd \/ AfterFile
    \/ OpenOut \/ OpenOutFails \/ DumpRecord \/ CloseOut \/ RunAgain \/ Crash

Spec == Init /\ [][Next]_vars

----------------------------------------------------------------------------
(* Claims about parse_ingredient, under SpecParse *)

\* s does not start, after optional leading whitespace, with a digit
NoLeadingDigit(s) ==
    \A k \in 1..Len(s) : (s[k] \in Digits) => \E j \in 1..(k - 1) : s[j] \notin WS

\* C8: for every ingredient line that does not start (after optional leading
\* whitespace) with a digit, parse_ingredient returns quantity None and a
\* name equal to the whole line, trimmed.
C8_PlainLineIsName ==
    (ppc = "returned" /\ NoLeadingDigit(ing_raw))
        => (parsed.quantity = None /\ parsed.name = Strip(ing_raw))

\* C9: for every line '<qty> <unit> <name>' whose qty is an integer, a
\* decimal, a fraction or a mixed number and whose unit is a key of UNIT_MAP,
\* parse_ingredient returns the number qty denotes (None when it denotes
\* none, as with a zero denominator), the canonical unit of the key, and the
\* trimmed name.
C9_QtyUnitNameRecovered ==
    (ppc = "returned" /\ form # NoForm)
        => /\ parsed.quantity = form.qty.val
           /\ parsed.unit = UnitMapGet(form.unit, None)
           /\ parsed.name = Strip(form.name)

----------------------------------------------------------------------------
(* Claims about parse_csv_cell, under SpecCell *)

\* the delimiters in priority order: '||', newline, ';', '|'
DelimiterOrder == << <<"|", "|">>, <<"\n">>, <<";">>, <<"|">> >>

\* what the claim gives for a cell text: the elements of a JSON array as
\* strings, the JSON text of a JSON object, otherwise the parts at the one
\* delimiter that comes first in priority order, trimmed, the empty ones
\* dropped; the trimmed text itself when it holds no delimiter; nothing for
\* a missing or empty cell
ClaimedParts(val) ==
    IF val = None \/ Strip(val) = <<>> THEN <<>>
    ELSE LET v == Strip(val)
             found == {i \in 1..Len(DelimiterOrder) : Contains(v, DelimiterOrder[i])}
         IN  IF v[1] \in {"[", "{"} /\ JsonLoads(v).ok THEN JsonLoads(v).elems
             ELSE IF found = {} THEN <<v>>
             ELSE StripParts(Split(v, DelimiterOrder[CHOOSE i \in found : \A j \in found : i <= j]))

\* C11: parse_csv_cell gives, for any cell text, the elements of the JSON
\* array it parses as, each as a string; the JSON text of the JSON object it
\* parses as; otherwise its parts at exactly one delimiter, the first of
\* '||', newline, ';', '|' that occurs in it, trimmed and without the empty
\* ones; the trimmed text when there is no delimiter; the empty sequence for
\* an empty or missing cell.
C11_CellParsing == kpc = "returned" => cell_out = ClaimedParts(cell_val)

----------------------------------------------------------------------------
(* Claims about the byte savings of an index, under SpecStats *)

\* the total the claim gives: orig_len - compressed_len summed over exactly
\* the entries whose orig_len is present
RECURSIVE ClaimedSavings(_)
ClaimedSavings(entries) ==
    IF entries = <<>> THEN 0
    ELSE (IF Head(entries).orig_len # NoLen
          THEN Head(entries).orig_len - Head(entries).compressed_len ELSE 0)
         + ClaimedSavings(Tail(entries))

\* every entry that has an orig_len has a compressed_len to subtract
Measurable(entries) ==
    \A k \in 1..Len(entries) :
        entries[k].orig_len # NoLen => entries[k].compressed_len # NoLen

\* C12: the total byte savings of an index is the sum of orig_len -
\* compressed_len over exactly the entries whose orig_len is present,
\* negative savings included, entries without orig_len excluded (50 for the
\* example index); the stats script, /compress-status and
\* /compress-status/summary give the same total, and in /compress-status the
\* total and the count are those of the whole index whatever the ids or
\* limit of the query.
C12_BytesSavedTotal ==
    Measurable(index_json.entries) =>
        /\ script_out.done => script_out.bytes_saved = ClaimedSavings(index_json.entries)
        /\ summary_out.done => summary_out.bytes_saved = ClaimedSavings(index_json.entries)
        /\ status_out.done =>
              /\ status_out.bytes_saved = ClaimedSavings(index_json.entries)
              /\ index_json.hasCount => status_out.count = index_json.count
        /\ (index_json = ExampleIndex /\ script_out.done) => script_out.bytes_saved = 50

----------------------------------------------------------------------------
(* Claims about run of scripts/ingest.py, under Spec *)

\* the elements of a file that run reads: those before the first one on
\* which reading or normalizing raises; none of a file that does not load
RECURSIVE ReadablePrefix(_)
ReadablePrefix(recs) ==
    IF recs = <<>> \/ ~Head(recs).ok THEN <<>>
    ELSE <<Head(recs)>> \o ReadablePrefix(Tail(recs))

Readable(f) ==
    IF f.suffix \notin {"json", "csv"} \/ (f.suffix = "json" /\ ~f.loads) THEN <<>>
    ELSE ReadablePrefix(f.recs)

ScanOf(f) ==
    [k \in 1..Len(Readable(f)) |->
        [csv |-> f.suffix = "csv", src |-> Readable(f)[k], nr |-> NormalizeElem(f, Readable(f)[k])]]

\* the records in scan order: files in sorted path order, records in file order
RECURSIVE ScanFiles(_)
ScanFiles(fs) == IF fs = <<>> THEN <<>> ELSE ScanOf(Head(fs)) \o ScanFiles(Tail(fs))

ScanOrder == ScanFiles(Files)

\* of a sequence of scanned records, the first with each id
RECURSIVE FirstOfEachId(_)
FirstOfEachId(sc) ==
    IF sc = <<>> THEN <<>>
    ELSE LET rest == FirstOfEachId(Sub(sc, 1, Len(sc) - 1))
             last == sc[Len(sc)].nr
         IN  IF \E k \in 1..Len(rest) : rest[k].id = last.id THEN rest ELSE Append(rest, last)

\* what run collects without a sample limit
Unlimited == FirstOfEachId(ScanOrder)

\* what run collects from the files fs, in sorted order, under the limit n
Collection(fs, n) ==
    IF n > 0 THEN Take(FirstOfEachId(ScanFiles(fs)), n) ELSE FirstOfEachId(ScanFiles(fs))

\* C1: in the written collection the ids are pairwise distinct, and the
\* record kept for an id is, unchanged, the first record with that id in scan
\* order (files in sorted path order, records in file order, as far as run
\* reads them); with no sample limit every scanned id is kept once.
C1_FirstRecordWins ==
    pc = "done" =>
        LET out == outFile.recs
            sc == ScanOrder
        IN  /\ \A i, j \in 1..Len(out) : i # j => out[i].id # out[j].id
            /\ \A k \in 1..Len(out) :
                  \E j \in 1..Len(sc) :
                      /\ sc[j].nr = out[k]
                      /\ \A h \in 1..(j - 1) : sc[h].nr.id # out[k].id
            /\ sample_limit = 0 =>
                  {out[k].id : k \in 1..Len(out)} = {sc[j].nr.id : j \in 1..Len(sc)}

\* two scanned records share an id and differ, and the collection is written
C1_Witness ==
    /\ pc = "done"
    /\ \E i, j \in 1..Len(ScanOrder) :
          /\ i < j
          /\ ScanOrder[i].nr.id = ScanOrder[j].nr.id
          /\ ScanOrder[i].nr # ScanOrder[j].nr
          /\ \E k \in 1..Len(outFile.recs) : outFile.recs[k] = ScanOrder[i].nr

RunPcs == {"start", "loop", "iter", "after", "write", "dump", "done",
           "crashed", "aborted_rawdir", "aborted_output"}

C2_State ==
    /\ pc \in RunPcs
    /\ (pc \in {"write", "dump", "done"} /\ ~(sample_limit > 0 /\ Len(collected) >= sample_limit)) =>
          \A i \in 1..Len(Files) :
              Files[i].suffix \in {"json", "csv"} => \E k \in 1..Len(trail.opened) : trail.opened[k] = i
    /\ pc = "done" => (outFile.whole /\ outFile.recs = collected)

C2_Step ==
    (trail'.nth = trail.nth /\ trail'.skipped # trail.skipped) =>
        (pc' = "loop" /\ fi' = fi + 1 /\ collected' = collected /\ seen_ids' = seen_ids)

\* C2: when reading or normalizing a file raises, run keeps what it has
\* collected and goes on with the next file; every remaining file is opened
\* unless the sample limit is reached first, and run ends by writing the
\* whole collection.  Only the two fatal I/O failures (raw directory, output
\* file) make an exception leave run.
C2_BadFileSkipped == []C2_State /\ [][C2_Step]_vars

\* a file raised, a later file gave a record, and the collection is written
C2_Witness ==
    /\ pc = "done"
    /\ \E i \in trail.skipped : \E k \in 1..Len(trail.opened) : trail.opened[k] > i
    /\ \E i \in trail.skipped : \E k \in 1..Len(trail.scanned) :
          /\ trail.scanned[k].file > i
          /\ \E j \in 1..Len(outFile.recs) : outFile.recs[j] = trail.scanned[k].nr
    /\ outFile.whole

C3_State ==
    /\ (pc \in {"write", "dump", "done"}) =>
          IF sample_limit > 0
          THEN Len(collected) <= sample_limit /\ collected = Take(Unlimited, sample_limit)
          ELSE collected = Unlimited
    /\ pc = "done" => outFile.recs = collected

C3_Step ==
    (trail'.nth = trail.nth /\ sample_limit > 0 /\ Len(collected) >= sample_limit) =>
        (trail'.scanned = trail.scanned /\ trail'.opened = trail.opened)

\* C3: with a sample limit N > 0 the written collection holds at most N
\* records and is the first N of what the unlimited run collects; once the
\* N-th record is collected no record is normalized and no file is opened;
\* with limit 0 (None) the collection is not truncated.
C3_SampleLimitTruncates == []C3_State /\ [][C3_Step]_vars

\* the limit cut the collection short and left a file unopened
C3_Witness ==
    /\ pc = "done"
    /\ sample_limit > 0
    /\ Len(outFile.recs) = sample_limit
    /\ Len(Unlimited) > sample_limit
    /\ \E i \in 1..Len(Files) :
          /\ Files[i].suffix \in {"json", "csv"}
          /\ \A k \in 1..Len(trail.opened) : trail.opened[k] # i

\* the id the claim gives a scanned record
ClaimedId(e) ==
    LET title == IF e.csv THEN RowTitle(e.src) ELSE e.src.title
    IN  Or(e.src.id, Or(e.src.url, Take(Or(title, <<>>), TitleIdLen)))

\* C5: the canonical id of every record run ingests (JSON item or CSV row)
\* is its id field if non-empty, otherwise its url field if non-empty,
\* otherwise the first 64 characters of its title.
C5_IdResolution ==
    \A k \in 1..Len(trail.scanned) : trail.scanned[k].nr.id = ClaimedId(trail.scanned[k])

\* C7: if run crashes at any point, the output file that existed before the
\* run still has its complete previous content.
C7_PreviousOutputIntact == pc = "crashed" => outFile = trail.prev

\* C10: a CSV row with no non-empty steps, directions or instructions cell
\* and a non-empty description gets as steps the one-element sequence that
\* holds the description unchanged.
C10_DescriptionIsTheStep ==
    \A k \in 1..Len(trail.scanned) :
        LET e == trail.scanned[k] IN
        (e.csv /\ ~Truthy(e.src.steps) /\ ~Truthy(e.src.directions)
               /\ ~Truthy(e.src.instructions) /\ Truthy(e.src.description))
            => e.nr.steps = <<e.src.description>>

\* C13: a second run on the same unchanged raw directory with the same
\* limit writes the collection the first run wrote, the same records in the
\* same order, whatever the order in which the directory is listed and
\* whatever the output file held before.
C13_RerunWritesTheSame ==
    (pc = "done" /\ trail.nth = 2) => outFile = trail.firstOut

\* the second run found the files listed in another order and another
\* output file than the first, and wrote two records or more
C13_Witness ==
    /\ pc = "done"
    /\ trail.nth = 2
    /\ trail.firstDir # rawDir
    /\ Len(outFile.recs) >= 2
    /\ trail.prev = trail.firstOut
    /\ \E k \in 1..Len(trail.scanned) : trail.scanned[k].file = 2

\* the files of the directory without the ones that raised part-way
RECURSIVE Without(_, _, _)
Without(fs, k, skipped) ==
    IF fs = <<>> THEN <<>>
    ELSE (IF k \in skipped THEN <<>> ELSE <<Head(fs)>>) \o Without(Tail(fs), k + 1, skipped)

\* C14: a raw file whose processing raises part-way through is skipped as a
\* whole: the written collection is the one the same run writes with that
\* file absent.
C14_FailedFileLeavesNothing ==
    (pc = "done" /\ trail.skipped # {}) =>
        outFile.recs = Collection(Without(Files, 1, trail.skipped), sample_limit)


----------------------------------------------------------------------------
(* Claims about the compression batch, under SpecCompress *)

\* how many recipes the batch processes
BatchSize == IF sample # 0 THEN Min(sample, Len(recipes)) ELSE Len(recipes)

HasBlobFile(k) ==
    \E b \in blobs : /\ b.name = index.entries[k].blob
                     /\ b.obj.id = index.entries[k].id
                     /\ b.obj.method = index.entries[k].method

\* C4: with the remote backend configured, whenever its call fails
\* (transport error, timeout, non-success status, malformed body)
\* compress_text returns the local backend's result for the item (method
\* 'simulated', blob, orig_len, compressed_len), no exception reaches run,
\* and the batch writes a blob file and an index entry for that recipe and
\* for every recipe after it.
C4_RemoteFailureFallsBack ==
    /\ (cpc = "compressed" /\ remote /\ call \in RemoteFailures) =>
          resp = _simulate_compress(build_text_for_recipe(recipes[ci + 1]))
    /\ cpc # "aborted"
    /\ \A i \in fellBack :
          /\ i + 1 <= Len(index.entries)
          /\ index.entries[i + 1].method = "simulated"
          /\ index.entries[i + 1].orig_len # NoLen
          /\ index.entries[i + 1].compressed_len # NoLen
    /\ \A k \in 1..Len(index.entries) : HasBlobFile(k)
    /\ cpc = "done" =>
          /\ index.count = BatchSize
          /\ Len(index.entries) = BatchSize
          /\ indexFile = [whole |-> TRUE, index |-> index]

\* a remote call failed, a later recipe was processed, the index is written
C4_Witness ==
    /\ cpc = "done"
    /\ remote
    /\ \E i \in fellBack : i + 1 < Len(index.entries)

====
